---- MODULE Spec2Model ----
(***************************************************************************)
(* A model of FGC_Data.py: the request scheduler of SmartStartGGAPI       *)
(* (add_to_queue, process_queue, make_safe_request with its rate-limit    *)
(* lock) driven by the per-player tasks of TournamentDataCollector, and   *)
(* the pure derivations that follow the fetches (find_shared_tournaments, *)
(* analyze_set_for_h2h, get_set_score, batch_process_tournament_data).    *)
(***************************************************************************)
EXTENDS Integers, Sequences, FiniteSets, TLC

(* ------------------------------------------------------------------ *)
(* Bounds of the model and constants of the program                    *)
(* ------------------------------------------------------------------ *)

\* number of target players, one fetch task each
NumPlayers == 2
\* largest totalPages the service reports for a player's sets
MaxTotalPages == 2

\* largest score value of a slot
MaxScore == 2

\* largest number of slots of a match record
MaxSlots == 3

\* largest totalPages reported to the single player of the pagination runs
MaxPagesSeen == 6

\* a direct caller of the API: requests enqueued, and priority values
MaxRequests == 3
MaxPriority == 3

\* the time that passes while the collector runs
MaxElapsed == 1

\* tournament ids, and slug/name variants, of the sets of a page
MaxTourneyIds == 1
MaxSlugs == 2

\* process_queue(max_requests=100) of get_tournament_players_and_game
SeedMaxRequests == 100

\* ThreadPoolExecutor(max_workers=3)
MaxWorkers == 3
\* make_safe_request(..., retries=3)
Retries == 3
\* min(4, total_pages - 1)
MaxAdditionalPages == 4

\* durations in ticks of 0.2 s
\* `if time_since_last < 0.6`
Interval == 3
\* process_queue: time.sleep(0.6)
QueueSleep == 3
\* time.sleep(8) after a response with status >= 500
ServerErrorSleep == 40
\* time.sleep(5 * (attempt + 1)) after an exception
BackoffBase == 25
\* response.headers.get('Retry-After', 60)
RetryAfterDefault == 300
\* largest Retry-After header value, in seconds, the service sends
MaxRetryAfterHeader == 1

Main == 0
NoThread == -1
Workers == 1..NumPlayers
Threads == {Main} \cup Workers

\* what the service can answer to one network call:
\*   ok      HTTP 2xx, no 'errors' key        r429   HTTP 429
\*   r5xx    HTTP >= 500                      gqlerr HTTP 2xx with 'errors'
\*   exc     requests.post raised (transport failure, timeout)
\*   badresp a response arrived and handling it raised (4xx in
\*           raise_for_status, undecodable body, missing 'data')
Kinds == {"ok", "r429", "r5xx", "gqlerr", "exc", "badresp"}

\* request identifiers as the code forms them: a bare player or tournament
\* id, f"{player_id}_page{page}", f"score_{set_id}"
RawId(n) == <<"raw", n, 0>>
PageId(p, k) == <<"page", p, k>>
ScoreId(s) == <<"score", s, 0>>

\* the value make_safe_request returns: None, or data['data']
\*   totalPages  data['player']['sets']['pageInfo']['totalPages']
\*   obj         the object data['tournament'], named by the serial of the
\*               request that fetched it; 0: "tournament": null
\*   score       the two score values of data['set']['slots']
NoData == [none |-> TRUE, totalPages |-> 0, obj |-> 0, score |-> <<0, 0>>]
Data(tp) == [none |-> FALSE, totalPages |-> tp, obj |-> 0, score |-> <<0, 0>>]
TData(o) == [none |-> FALSE, totalPages |-> 0, obj |-> o, score |-> <<0, 0>>]
SData(a, b) == [none |-> FALSE, totalPages |-> 0, obj |-> 1, score |-> <<a, b>>]
\* a SetScore answer with a slot whose standing is null
NullStanding == [none |-> FALSE, totalPages |-> 0, obj |-> 2, score |-> <<0, 0>>]

VARIABLES
  request_queue,    \* self.request_queue, oldest first
  results,          \* self.results: identifier -> [type, data]
  rate_limit_lock,  \* the thread inside `with self.rate_limit_lock`, or NoThread
  pc,               \* where each thread stands
  req,              \* process_queue: request_data
  processed,        \* process_queue: processed
  max_requests,     \* process_queue: max_requests
  attempt,          \* make_safe_request: attempt
  ret,              \* make_safe_request: the value returned
  page,             \* the page a player task is fetching
  total_pages,      \* get_player_tournaments_simple: total_pages (0: not read)
  enq,              \* history: number of requests enqueued so far
  popCount,         \* history: serial -> number of times popped
  idOf,             \* history: serial -> identifier of the request
  last,             \* history: the response the thread's current call got last
  uniform,          \* history: all responses of the current call were alike
  sinceLast,        \* min(now - self.last_request_time, Interval)
  sinceStart,       \* min(now - start of the latest network call, Interval)
  timer,            \* what is left of each thread's time.sleep; Interval
                    \* stands for Interval ticks or more
  gap,              \* history: the latest network call started Interval or
                    \* more after the one before it
  main_ret,         \* where the main thread's process_queue call returns to
  tournament_list,  \* batch_process_tournament_data: list of [id, slug]
  fail_id,          \* the tournament id whose fetch yields no tournament (0: none)
  tournament_cache, \* self.tournament_cache: slug -> tournament object
  tournament_details, \* batch_process_tournament_data: id -> tournament object
  bi,               \* batch_process_tournament_data: index of the batch's first item
  bk,               \* batch_process_tournament_data: index of the current item
  player_tournaments, \* the dict player_tournaments, in its iteration order:
                    \* a list of [player, tournaments (the keys)]
  shared_tournaments, \* what find_shared_tournaments returned
  set_data,         \* analyze_set_for_h2h: the match record [id, slots]
  player_ids,       \* analyze_set_for_h2h: list(players_in_set)
  winner_id,        \* analyze_set_for_h2h: winner_id (0: None)
  match,            \* what analyze_set_for_h2h returned
  now,              \* datetime.now(), in half years
  one_year_ago,     \* self.one_year_ago
  target_game_name, \* self.target_game_name
  tournaments,      \* get_player_tournaments_simple: tournaments, id -> entry
  additional,       \* get_additional_player_sets_pages: tournaments
  first_seen,       \* history: id -> the first entry of that id that was kept
  target_players,   \* collect_tournament_data: the keys of target_players
  task_result,      \* the future of each player task: [st, tournaments]
  collected,        \* the futures as_completed has yielded so far
  sets_details,     \* batch_process_tournament_sets: the keys of tournament_details
  head_to_head_data, \* collect_tournament_data: head_to_head_data
  outcome,          \* how collect_tournament_data ended
  all_ok            \* history: every call so far got the expected answer

qvars == <<request_queue, results, rate_limit_lock>>
tvars == <<pc, req, processed, max_requests, attempt, ret, page, total_pages>>
hvars == <<enq, popCount, idOf, last, uniform>>
cvars == <<sinceLast, sinceStart, timer, gap>>
bvars == <<tournament_list, fail_id, tournament_cache, tournament_details, bi, bk>>
svars == <<player_tournaments, shared_tournaments>>
mvars == <<set_data, player_ids, winner_id, match>>
fvars == <<now, one_year_ago, target_game_name, tournaments, additional,
           first_seen>>
pvars == <<target_players, task_result, collected, sets_details,
           head_to_head_data, outcome, all_ok>>
ovars == <<fvars, pvars>>
dvars == <<main_ret, bvars, svars, mvars, ovars>>
vars == <<qvars, tvars, hvars, cvars, dvars>>

NoReq == [type |-> "none", id |-> RawId(0), priority |-> 0, n |-> 0]

Put(f, k, v) == [x \in DOMAIN f \cup {k} |-> IF x = k THEN v ELSE f[x]]

\* SmartStartGGAPI.__init__, with every thread at the place pcs gives it
ApiInitAt(pcs) ==
  /\ request_queue = <<>>
  /\ results = <<>>
  /\ rate_limit_lock = NoThread
  /\ pc = pcs
  /\ req = [t \in Threads |-> NoReq]
  /\ processed = [t \in Threads |-> 0]
  /\ max_requests = [t \in Threads |-> 0]
  /\ attempt = [t \in Threads |-> 0]
  /\ ret = [t \in Threads |-> NoData]
  /\ page = [t \in Threads |-> 0]
  /\ total_pages = [t \in Threads |-> 0]
  /\ enq = 0
  /\ popCount = <<>>
  /\ idOf = <<>>
  /\ last = [t \in Threads |-> "nothing"]
  /\ uniform = [t \in Threads |-> TRUE]
  /\ sinceLast = 0
  /\ sinceStart = Interval
  /\ timer = [t \in Threads |-> 0]
  /\ gap = TRUE
  /\ main_ret = "idle"

\* SmartStartGGAPI.__init__, with the main thread and the player tasks at the
\* given places
ApiInit(mainPc, taskPc) ==
  ApiInitAt([t \in Threads |-> IF t = Main THEN mainPc ELSE taskPc])

\* TournamentDataCollector.__init__: an empty cache; no batch under way
BatchOff ==
  /\ tournament_list = <<>>
  /\ fail_id = 0
  /\ tournament_cache = <<>>
  /\ tournament_details = <<>>
  /\ bi = 0
  /\ bk = 0

\* find_shared_tournaments has not been called
SharedOff ==
  /\ player_tournaments = <<>>
  /\ shared_tournaments = <<>>

\* analyze_set_for_h2h returning None
NoMatch ==
  [emitted |-> FALSE, player1_id |-> 0, player2_id |-> 0, winner_id |-> 0,
   loser_id |-> 0, score |-> <<0, 0>>, set_id |-> 0]

\* no match is being analysed
MatchOff ==
  /\ set_data = [id |-> 0, slots |-> <<>>]
  /\ player_ids = <<>>
  /\ winner_id = 0
  /\ match = NoMatch

\* one year, in the unit of `now`: timedelta(days=365)
Year == 2

\* the collector as __init__ leaves it at time c, target_game_name set to g
CollectorInit(c, g) ==
  /\ now = c
  /\ one_year_ago = c - Year
  /\ target_game_name = g

\* no player's sets are being filtered
FilterOff ==
  /\ CollectorInit(Year, "")
  /\ tournaments = <<>>
  /\ additional = <<>>
  /\ first_seen = <<>>

\* the future of a task that has not finished
Pending == [st |-> "pending", tournaments |-> {}]

\* collect_tournament_data is not running
PipelineOff ==
  /\ target_players = {}
  /\ task_result = [w \in Workers |-> Pending]
  /\ collected = {}
  /\ sets_details = {}
  /\ head_to_head_data = <<>>
  /\ outcome = "running"
  /\ all_ok = TRUE

OthersOff == FilterOff /\ PipelineOff

\* the player tasks have been submitted, the main thread waits for them
Init ==
  ApiInit("idle", "w_submitted") /\ BatchOff /\ SharedOff /\ MatchOff /\ OthersOff

(* ------------------------------------------------------------------ *)
(* SmartStartGGAPI                                                     *)
(* ------------------------------------------------------------------ *)

\* add_to_queue inserting by priority value instead of appending
add_to_queue_sorted(type, id, priority) ==
  LET before == SelectSeq(request_queue, LAMBDA r : r.priority <= priority)
      after == SelectSeq(request_queue, LAMBDA r : r.priority > priority)
  IN /\ request_queue' = before \o
          <<[type |-> type, id |-> id, priority |-> priority, n |-> enq + 1]>>
          \o after
     /\ enq' = enq + 1
     /\ popCount' = Put(popCount, enq + 1, 0)
     /\ idOf' = Put(idOf, enq + 1, id)

\* add_to_queue: Queue.put of one request record
add_to_queue(type, id, priority) ==
  /\ request_queue' = Append(request_queue,
        [type |-> type, id |-> id, priority |-> priority, n |-> enq + 1])
  /\ enq' = enq + 1
  /\ popCount' = Put(popCount, enq + 1, 0)
  /\ idOf' = Put(idOf, enq + 1, id)

\* where process_queue returns to
ReturnPc(t) == IF t = Main THEN main_ret ELSE "w_read"

\* the while condition without `processed < max_requests`
PQCheckUnbounded(t) ==
  /\ pc[t] = "pq_check"
  /\ timer[t] = 0
  /\ pc' = [pc EXCEPT ![t] = IF request_queue # <<>> THEN "pq_get" ELSE ReturnPc(t)]
  /\ UNCHANGED <<qvars, req, processed, max_requests, attempt, ret, page,
                 total_pages, hvars>>

\* process_queue: the while condition, read once the thread's sleep is over
PQCheck(t) ==
  /\ pc[t] = "pq_check"
  /\ timer[t] = 0
  /\ pc' = [pc EXCEPT ![t] =
        IF request_queue # <<>> /\ processed[t] < max_requests[t]
        THEN "pq_get" ELSE ReturnPc(t)]
  /\ UNCHANGED <<qvars, req, processed, max_requests, attempt, ret, page,
                 total_pages, hvars>>

\* the first statement of make_safe_request's loop body, or its final
\* `return None` when range(retries) is exhausted
AfterAttempt(a) == IF a < Retries THEN "msr_lock" ELSE "pq_store"

\* PQGet reading the oldest request without removing it
PQGetPeek(t) ==
  /\ pc[t] = "pq_get"
  /\ request_queue # <<>>
  /\ req' = [req EXCEPT ![t] = Head(request_queue)]
  /\ popCount' = [popCount EXCEPT ![Head(request_queue).n] = @ + 1]
  /\ last' = [last EXCEPT ![t] = "nothing"]
  /\ uniform' = [uniform EXCEPT ![t] = TRUE]
  /\ attempt' = [attempt EXCEPT ![t] = 0]
  /\ ret' = [ret EXCEPT ![t] = NoData]
  /\ pc' = [pc EXCEPT ![t] = "msr_lock"]
  /\ UNCHANGED <<request_queue, results, rate_limit_lock, processed,
                 max_requests, page, total_pages, enq, idOf>>

\* process_queue: request_data = self.request_queue.get()  (blocks while empty)
PQGet(t) ==
  /\ pc[t] = "pq_get"
  /\ request_queue # <<>>
  /\ req' = [req EXCEPT ![t] = Head(request_queue)]
  /\ request_queue' = Tail(request_queue)
  /\ popCount' = [popCount EXCEPT ![Head(request_queue).n] = @ + 1]
  /\ last' = [last EXCEPT ![t] = "nothing"]
  /\ uniform' = [uniform EXCEPT ![t] = TRUE]
  /\ attempt' = [attempt EXCEPT ![t] = 0]
  /\ ret' = [ret EXCEPT ![t] = NoData]
  /\ pc' = [pc EXCEPT ![t] = AfterAttempt(0)]
  /\ UNCHANGED <<results, rate_limit_lock, processed, max_requests, page,
                 total_pages, enq, idOf>>

\* the with block entered without waiting for the lock
MsrAcquireShared(t) ==
  /\ pc[t] = "msr_lock"
  /\ timer[t] = 0
  /\ rate_limit_lock' = t
  /\ pc' = [pc EXCEPT ![t] = "msr_wait"]
  /\ UNCHANGED <<request_queue, results, req, processed,
                 max_requests, attempt, ret, page, total_pages, hvars>>

\* make_safe_request: `with self.rate_limit_lock:` entered, once the thread's
\* backoff sleep is over
MsrAcquire(t) ==
  /\ pc[t] = "msr_lock"
  /\ timer[t] = 0
  /\ rate_limit_lock = NoThread
  /\ rate_limit_lock' = t
  /\ pc' = [pc EXCEPT ![t] = "msr_wait"]
  /\ UNCHANGED <<request_queue, results, req, processed,
                 max_requests, attempt, ret, page, total_pages, hvars>>

\* make_safe_request: the interval sleep is over, requests.post is called
MsrPost(t) ==
  /\ pc[t] = "msr_wait"
  /\ timer[t] = 0
  /\ pc' = [pc EXCEPT ![t] = "msr_inflight"]
  /\ UNCHANGED <<qvars, req, processed, max_requests, attempt, ret, page,
                 total_pages, hvars>>

\* the payloads the service can return for a request of this type
Payloads(r) ==
  CASE r.type = "player_sets" -> {Data(tp) : tp \in 1..MaxTotalPages}
    [] r.type = "tournament_data" -> {TData(r.n)}
    [] r.type = "set_score" ->
         {SData(a, b) : a, b \in 0..MaxScore} \cup {NullStanding, Data(0)}
    [] OTHER -> {Data(0)}

\* make_safe_request: a call that got `kind` is handled along the branch `as`
Classify(t, kind, payload, as) ==
  /\ pc[t] = "msr_inflight"
  /\ last' = [last EXCEPT ![t] = kind]
  /\ uniform' = [uniform EXCEPT ![t] = @ /\ last[t] \in {"nothing", kind}]
  /\ CASE as = "ok" ->
            \* return data['data']
            /\ ret' = [ret EXCEPT ![t] = payload]
            /\ rate_limit_lock' = NoThread
            /\ pc' = [pc EXCEPT ![t] = "pq_store"]
            /\ UNCHANGED attempt
       [] as = "gqlerr" ->
            \* if 'errors' in data: return None
            /\ ret' = [ret EXCEPT ![t] = NoData]
            /\ rate_limit_lock' = NoThread
            /\ pc' = [pc EXCEPT ![t] = "pq_store"]
            /\ UNCHANGED attempt
       [] as \in {"r429", "r5xx"} ->
            \* time.sleep(...) inside the with block, then continue
            /\ pc' = [pc EXCEPT ![t] = "msr_sleep"]
            /\ UNCHANGED <<ret, rate_limit_lock, attempt>>
       [] as \in {"exc", "badresp"} ->
            \* except Exception: the with block is left, the lock released
            \* (time.sleep(5 * (attempt + 1)) if another attempt follows)
            /\ rate_limit_lock' = NoThread
            /\ attempt' = [attempt EXCEPT ![t] = @ + 1]
            /\ pc' = [pc EXCEPT ![t] = AfterAttempt(attempt[t] + 1)]
            /\ UNCHANGED ret
  /\ UNCHANGED <<request_queue, results, req, processed, max_requests, page,
                 total_pages, enq, popCount, idOf>>

\* MsrResponse without the try/except: the last transport failure escapes
\* make_safe_request and ends process_queue
MsrResponseRaising(t, kind, payload) ==
  IF kind = "exc" /\ attempt[t] = Retries - 1
  THEN /\ pc[t] = "msr_inflight"
       /\ rate_limit_lock' = NoThread
       /\ pc' = [pc EXCEPT ![t] = "pq_raised"]
       /\ last' = [last EXCEPT ![t] = kind]
       /\ uniform' = [uniform EXCEPT ![t] = @ /\ last[t] \in {"nothing", kind}]
       /\ UNCHANGED <<request_queue, results, req, processed, max_requests,
                      attempt, ret, page, total_pages, enq, popCount, idOf>>
  ELSE Classify(t, kind, payload, kind)

\* MsrResponse retrying an application-level error like a server error
MsrResponseRetryErrors(t, kind, payload) ==
  Classify(t, kind, payload, IF kind = "gqlerr" THEN "r5xx" ELSE kind)

\* make_safe_request: the network call ends and is classified
MsrResponse(t, kind, payload) == Classify(t, kind, payload, kind)

\* make_safe_request: the sleep after a 429 or 5xx ends, `continue`
MsrWake(t) ==
  /\ pc[t] = "msr_sleep"
  /\ timer[t] = 0
  /\ rate_limit_lock' = NoThread
  /\ attempt' = [attempt EXCEPT ![t] = @ + 1]
  /\ pc' = [pc EXCEPT ![t] = AfterAttempt(attempt[t] + 1)]
  /\ UNCHANGED <<request_queue, results, req, processed,
                 max_requests, ret, page, total_pages, hvars>>

\* process_queue counting the request without storing its outcome
PQStoreLost(t) ==
  /\ pc[t] = "pq_store"
  /\ processed' = [processed EXCEPT ![t] = @ + 1]
  /\ pc' = [pc EXCEPT ![t] = "pq_check"]
  /\ req' = [req EXCEPT ![t] = NoReq]
  /\ attempt' = [attempt EXCEPT ![t] = 0]
  /\ ret' = [ret EXCEPT ![t] = NoData]
  /\ last' = [last EXCEPT ![t] = "nothing"]
  /\ uniform' = [uniform EXCEPT ![t] = TRUE]
  /\ UNCHANGED <<request_queue, results, rate_limit_lock, max_requests, page,
                 total_pages, enq, popCount, idOf>>

\* process_queue: self.results[request_data['id']] = {...}; processed += 1
\* (time.sleep(0.6) follows, then the while condition)
PQStore(t) ==
  /\ pc[t] = "pq_store"
  /\ results' = Put(results, req[t].id, [type |-> req[t].type, data |-> ret[t]])
  /\ processed' = [processed EXCEPT ![t] = @ + 1]
  /\ pc' = [pc EXCEPT ![t] = "pq_check"]
  \* the locals of the finished call and iteration go out of scope
  /\ req' = [req EXCEPT ![t] = NoReq]
  /\ attempt' = [attempt EXCEPT ![t] = 0]
  /\ ret' = [ret EXCEPT ![t] = NoData]
  /\ last' = [last EXCEPT ![t] = "nothing"]
  /\ uniform' = [uniform EXCEPT ![t] = TRUE]
  /\ UNCHANGED <<request_queue, rate_limit_lock, max_requests, page,
                 total_pages, enq, popCount, idOf>>

(* ------------------------------------------------------------------ *)
(* The per-player tasks of get_all_player_tournaments_parallel          *)
(* ------------------------------------------------------------------ *)

\* the identifier of the request a player task has enqueued last
OwnId(w) == IF page[w] = 1 THEN RawId(w) ELSE PageId(w, page[w])

\* the pool runs at most max_workers tasks at a time
Running == {w \in Workers : pc[w] \notin {"w_submitted", "w_done"}}

\* get_player_tournaments_simple: add_to_queue, then process_queue(1) is entered
WStart(w) ==
  /\ pc[w] = "w_submitted"
  /\ Cardinality(Running) < MaxWorkers
  /\ add_to_queue("player_sets", RawId(w), 2)
  /\ page' = [page EXCEPT ![w] = 1]
  /\ processed' = [processed EXCEPT ![w] = 0]
  /\ max_requests' = [max_requests EXCEPT ![w] = 1]
  /\ pc' = [pc EXCEPT ![w] = "pq_check"]
  /\ UNCHANGED <<results, rate_limit_lock, req, attempt, ret, total_pages,
                 last, uniform>>

\* the additional pages without the cap
LastPageUncapped(tp) == IF tp > 1 THEN tp ELSE 1

\* the last page get_additional_player_sets_pages asks for
LastPage(tp) == 1 + (IF tp - 1 < MaxAdditionalPages THEN tp - 1 ELSE MaxAdditionalPages)

\* result = self.api.results.get(id) after process_queue returned, and the
\* decision whether another page follows
WRead(w) ==
  /\ pc[w] = "w_read"
  /\ LET has == OwnId(w) \in DOMAIN results /\ ~results[OwnId(w)].data.none
         tp == IF page[w] = 1
               THEN (IF has THEN results[OwnId(w)].data.totalPages ELSE 0)
               ELSE total_pages[w]
         more == tp > 1 /\ page[w] < LastPage(tp)
     IN /\ total_pages' = [total_pages EXCEPT ![w] = IF more THEN tp ELSE 0]
        /\ page' = [page EXCEPT ![w] = IF more THEN @ ELSE 0]
        /\ pc' = [pc EXCEPT ![w] = IF more THEN "w_page" ELSE "w_done"]
  /\ processed' = [processed EXCEPT ![w] = 0]
  /\ max_requests' = [max_requests EXCEPT ![w] = 0]
  /\ UNCHANGED <<qvars, req, attempt, ret, hvars>>

\* get_additional_player_sets_pages: add_to_queue for the next page, then
\* process_queue(1) is entered
WNextPage(w) ==
  /\ pc[w] = "w_page"
  /\ add_to_queue("player_sets_page", PageId(w, page[w] + 1), 2)
  /\ page' = [page EXCEPT ![w] = @ + 1]
  /\ processed' = [processed EXCEPT ![w] = 0]
  /\ max_requests' = [max_requests EXCEPT ![w] = 1]
  /\ pc' = [pc EXCEPT ![w] = "pq_check"]
  /\ UNCHANGED <<results, rate_limit_lock, req, attempt, ret, total_pages,
                 last, uniform>>

Next ==
  \/ \E w \in Workers : WStart(w) /\ UNCHANGED <<cvars, dvars>>
  \/ \E w \in Workers : WRead(w) /\ UNCHANGED <<cvars, dvars>>
  \/ \E w \in Workers : WNextPage(w) /\ UNCHANGED <<cvars, dvars>>
  \/ \E t \in Threads : PQCheck(t) /\ UNCHANGED <<cvars, dvars>>
  \/ \E t \in Threads : PQGet(t) /\ UNCHANGED <<cvars, dvars>>
  \/ \E t \in Threads : MsrAcquire(t) /\ UNCHANGED <<cvars, dvars>>
  \/ \E t \in Threads : MsrPost(t) /\ UNCHANGED <<cvars, dvars>>
  \/ \E t \in Threads : \E k \in Kinds : \E p \in Payloads(req[t]) :
        MsrResponse(t, k, p) /\ UNCHANGED <<cvars, dvars>>
  \/ \E t \in Threads : MsrWake(t) /\ UNCHANGED <<cvars, dvars>>
  \/ \E t \in Threads : PQStore(t) /\ UNCHANGED <<cvars, dvars>>

Spec == Init /\ [][Next]_vars

\* the steps of the player task w
WorkerStep(w) ==
  \/ WStart(w) /\ UNCHANGED <<cvars, dvars>>
  \/ WRead(w) /\ UNCHANGED <<cvars, dvars>>
  \/ WNextPage(w) /\ UNCHANGED <<cvars, dvars>>
  \/ PQCheck(w) /\ UNCHANGED <<cvars, dvars>>
  \/ PQGet(w) /\ UNCHANGED <<cvars, dvars>>
  \/ MsrAcquire(w) /\ UNCHANGED <<cvars, dvars>>
  \/ MsrPost(w) /\ UNCHANGED <<cvars, dvars>>
  \/ \E k \in Kinds : \E p \in Payloads(req[w]) :
        MsrResponse(w, k, p) /\ UNCHANGED <<cvars, dvars>>
  \/ MsrWake(w) /\ UNCHANGED <<cvars, dvars>>
  \/ PQStore(w) /\ UNCHANGED <<cvars, dvars>>

\* the player tasks under a scheduler that lets every thread run, with every
\* network call returning (requests.post has timeout=30) and every sleep ending
SpecL == Init /\ [][Next]_vars /\ \A w \in Workers : WF_vars(WorkerStep(w))

(* ------------------------------------------------------------------ *)
(* The same scheduler with its clock: every time.sleep and the         *)
(* datetime.now() readings of make_safe_request                        *)
(* ------------------------------------------------------------------ *)

\* No reading of the clock is compared with anything but Interval, so elapsed and
\* remaining times are followed up to Interval; a remaining time of Interval or
\* more stays there for as many ticks as the sleep is longer.
Cap(n) == IF n < Interval THEN n ELSE Interval
SetTimer(t, d) == timer' = [timer EXCEPT ![t] = Cap(d)]

\* one tick of wall-clock time passes; `longer` are the sleeping threads that
\* still have Interval ticks or more left after it
Tick ==
  /\ \E longer \in SUBSET {t \in Threads : timer[t] = Interval} :
        timer' = [t \in Threads |->
                    IF timer[t] = 0 \/ t \in longer THEN timer[t] ELSE timer[t] - 1]
  /\ sinceLast' = Cap(sinceLast + 1)
  /\ sinceStart' = Cap(sinceStart + 1)
  /\ UNCHANGED <<qvars, tvars, hvars, gap, dvars>>

\* time_since_last = now - last_request_time; sleep 0.6 - time_since_last
RateSleep(t) ==
  /\ MsrAcquire(t)
  /\ SetTimer(t, IF sinceLast < Interval THEN Interval - sinceLast ELSE 0)
  /\ UNCHANGED <<sinceLast, sinceStart, gap, dvars>>

\* requests.post starts once the sleep is over
PostStart(t) ==
  /\ MsrPost(t)
  /\ gap' = (sinceStart >= Interval)
  /\ sinceStart' = 0
  /\ UNCHANGED <<sinceLast, timer, dvars>>

\* int(response.headers.get('Retry-After', 60)), in ticks; h = -1: no header
RetryAfter(h) == IF h < 0 THEN RetryAfterDefault ELSE 5 * h

\* the sleep that follows a classified response
SleepAfter(t, kind, h) ==
  CASE kind = "r429" -> RetryAfter(h)
    [] kind = "r5xx" -> ServerErrorSleep
    [] kind \in {"exc", "badresp"} /\ attempt[t] < Retries - 1 ->
          BackoffBase * (attempt[t] + 1)
    [] OTHER -> 0

\* the call ends; self.last_request_time = datetime.now() unless post raised
Respond(t, kind, payload, h) ==
  /\ MsrResponse(t, kind, payload)
  /\ sinceLast' = IF kind = "exc" THEN sinceLast ELSE 0
  /\ SetTimer(t, SleepAfter(t, kind, h))
  /\ UNCHANGED <<sinceStart, gap, dvars>>

StoreT(t) ==
  /\ PQStore(t)
  /\ SetTimer(t, QueueSleep)
  /\ UNCHANGED <<sinceLast, sinceStart, gap, dvars>>

\* the tasks' first-page fetches, for players whose sets fit one page
NextT ==
  \/ Tick
  \/ \E w \in Workers : WStart(w) /\ UNCHANGED <<cvars, dvars>>
  \/ \E w \in Workers : WRead(w) /\ UNCHANGED <<cvars, dvars>>
  \/ \E t \in Threads : PQCheck(t) /\ UNCHANGED <<cvars, dvars>>
  \/ \E t \in Threads : PQGet(t) /\ UNCHANGED <<cvars, dvars>>
  \/ \E t \in Threads : RateSleep(t)
  \/ \E t \in Threads : PostStart(t)
  \/ \E t \in Threads : \E k \in Kinds : \E p \in Payloads(req[t]) :
        \E h \in -1..MaxRetryAfterHeader :
           p.totalPages <= 1 /\ Respond(t, k, p, h)
  \/ \E t \in Threads : MsrWake(t) /\ UNCHANGED <<cvars, dvars>>
  \/ \E t \in Threads : StoreT(t)

SpecT == Init /\ [][NextT]_vars

(* ------------------------------------------------------------------ *)
(* batch_process_tournament_data, run by the main thread                *)
(* ------------------------------------------------------------------ *)

\* most tournaments in tournament_list
MaxTournaments == 13
\* batch_size = 12
BatchSize == 12

\* tournament_list = list(tournament_slugs.items()): ids 1..n, every
\* tournament with a slug of its own (its id), but for tournament `b`, which
\* carries the slug of tournament `a` when a # b
TournamentList(n, a, b) ==
  [k \in 1..n |-> [id |-> k, slug |-> IF k = b THEN a ELSE k]]

\* the cache is empty when the only call of a run begins
InitB ==
  /\ ApiInit("b_enqueue", "w_done")
  /\ \E n \in 1..MaxTournaments : \E a \in 1..n : \E b \in a..n :
        /\ tournament_list = TournamentList(n, a, b)
        /\ fail_id \in {0, a, b}
  /\ tournament_cache = <<>>
  /\ tournament_details = <<>>
  /\ bi = 1
  /\ bk = 1
  /\ SharedOff
  /\ MatchOff
  /\ OthersOff

\* batch = tournament_list[i:i+batch_size]: the index of its last item
BatchEnd ==
  IF bi + BatchSize - 1 < Len(tournament_list)
  THEN bi + BatchSize - 1 ELSE Len(tournament_list)

\* the first loop over the batch: a cached slug is answered from the cache,
\* any other is enqueued; after the last item process_queue(len(batch)) is entered
BEnqueue ==
  /\ pc[Main] = "b_enqueue"
  /\ IF bk <= BatchEnd
     THEN LET item == tournament_list[bk] IN
          /\ IF item.slug \in DOMAIN tournament_cache
             THEN /\ tournament_details' =
                       Put(tournament_details, item.id, tournament_cache[item.slug])
                  /\ UNCHANGED <<request_queue, enq, popCount, idOf>>
             ELSE /\ add_to_queue("tournament_data", RawId(item.id), 3)
                  /\ UNCHANGED tournament_details
          /\ bk' = bk + 1
          /\ UNCHANGED <<pc, processed, max_requests, main_ret>>
     ELSE /\ processed' = [processed EXCEPT ![Main] = 0]
          /\ max_requests' = [max_requests EXCEPT ![Main] = BatchEnd - bi + 1]
          /\ main_ret' = "b_collect"
          /\ pc' = [pc EXCEPT ![Main] = "pq_check"]
          /\ bk' = bi
          /\ UNCHANGED <<request_queue, enq, popCount, idOf, tournament_details>>
  /\ UNCHANGED <<results, rate_limit_lock, req, attempt, ret, page, total_pages,
                 last, uniform, cvars, tournament_list, fail_id,
                 tournament_cache, bi, svars, mvars, ovars>>

\* the second loop over the batch: the outcome of every slug not in the cache
\* is read and, when it holds a tournament, recorded and cached; after the
\* last item the next batch begins
BCollect ==
  /\ pc[Main] = "b_collect"
  /\ IF bk <= BatchEnd
     THEN LET item == tournament_list[bk]
              has == /\ RawId(item.id) \in DOMAIN results
                     /\ ~results[RawId(item.id)].data.none
                     /\ results[RawId(item.id)].data.obj # 0
          IN
          /\ IF item.slug \notin DOMAIN tournament_cache /\ has
             THEN /\ tournament_details' =
                       Put(tournament_details, item.id, results[RawId(item.id)].data.obj)
                  /\ tournament_cache' =
                       Put(tournament_cache, item.slug, results[RawId(item.id)].data.obj)
             ELSE UNCHANGED <<tournament_details, tournament_cache>>
          /\ bk' = bk + 1
          /\ UNCHANGED <<pc, bi>>
     ELSE /\ bi' = bi + BatchSize
          /\ bk' = bi + BatchSize
          /\ pc' = [pc EXCEPT ![Main] =
                IF bi + BatchSize <= Len(tournament_list) THEN "b_enqueue" ELSE "b_done"]
          /\ UNCHANGED <<tournament_details, tournament_cache>>
  /\ UNCHANGED <<qvars, req, processed, max_requests, attempt, ret, page,
                 total_pages, hvars, cvars, main_ret, tournament_list, fail_id,
                 svars, mvars, ovars>>

\* the service answers every TournamentData query with the tournament, but
\* for tournament fail_id: an error list, or "tournament": null
Answers(r) ==
  IF r.id = RawId(fail_id)
  THEN {<<"gqlerr", NoData>>, <<"ok", TData(0)>>}
  ELSE {<<"ok", p>> : p \in Payloads(r)}

NextB ==
  \/ BEnqueue
  \/ BCollect
  \/ PQCheck(Main) /\ UNCHANGED <<cvars, dvars>>
  \/ PQGet(Main) /\ UNCHANGED <<cvars, dvars>>
  \/ MsrAcquire(Main) /\ UNCHANGED <<cvars, dvars>>
  \/ MsrPost(Main) /\ UNCHANGED <<cvars, dvars>>
  \/ \E a \in Answers(req[Main]) :
        MsrResponse(Main, a[1], a[2]) /\ UNCHANGED <<cvars, dvars>>
  \/ PQStore(Main) /\ UNCHANGED <<cvars, dvars>>

SpecB == InitB /\ [][NextB]_vars

(* ------------------------------------------------------------------ *)
(* find_shared_tournaments                                              *)
(* ------------------------------------------------------------------ *)

\* most players with an entry in player_tournaments
MaxSharedPlayers == 2
\* most distinct tournament ids in their maps
MaxSharedTournaments == 3

\* the orders in which the players of P can have been inserted
Orders(P) ==
  {o \in [1..Cardinality(P) -> P] : \A i, j \in DOMAIN o : o[i] = o[j] => i = j}

\* player_tournaments holds the players whose task returned a non-empty map
\* (`if tournaments:`), in the order their tasks completed
InitS ==
  /\ ApiInit("s_start", "w_done")
  /\ BatchOff
  /\ \E P \in SUBSET (1..MaxSharedPlayers) :
       \E f \in [P -> (SUBSET (1..MaxSharedTournaments)) \ {{}}] :
        \E o \in Orders(P) :
          player_tournaments =
            [i \in 1..Cardinality(P) |-> [player |-> o[i], tournaments |-> f[o[i]]]]
  /\ shared_tournaments = <<>>
  /\ MatchOff
  /\ OthersOff

\* the first loop: tournament_player_counts after the entries i.. of
\* player_tournaments have been added to counts
RECURSIVE CountPlayers(_, _, _)
CountPlayers(pt, i, counts) ==
  IF i > Len(pt) THEN counts
  ELSE CountPlayers(pt, i + 1,
         [t \in DOMAIN counts \cup pt[i].tournaments |->
            (IF t \in DOMAIN counts THEN counts[t] ELSE {}) \cup
            (IF t \in pt[i].tournaments THEN {pt[i].player} ELSE {})])

\* the inner loop with its break: the first player whose map holds t
RECURSIVE FirstWith(_, _, _)
FirstWith(pt, t, i) ==
  IF t \in pt[i].tournaments THEN pt[i].player ELSE FirstWith(pt, t, i + 1)

\* the second loop, keeping the tournaments with at least `least` players
SharedAtLeast(pt, least) ==
  LET counts == CountPlayers(pt, 1, <<>>) IN
  [t \in {u \in DOMAIN counts : Cardinality(counts[u]) >= least} |->
     [players |-> counts[t],
      player_count |-> Cardinality(counts[t]),
      info_of |-> FirstWith(pt, t, 1)]]

\* find_shared_tournaments with `> 2` for `>= 2`
FindSharedStrict(pt) == SharedAtLeast(pt, 3)

\* find_shared_tournaments
FindShared(pt) == SharedAtLeast(pt, 2)

SFind ==
  /\ pc[Main] = "s_start"
  /\ shared_tournaments' = FindShared(player_tournaments)
  /\ pc' = [pc EXCEPT ![Main] = "s_done"]
  /\ UNCHANGED <<qvars, req, processed, max_requests, attempt, ret, page,
                 total_pages, hvars, cvars, main_ret, bvars, player_tournaments,
                 mvars, ovars>>

NextS == SFind

SpecS == InitS /\ [][NextS]_vars

(* ------------------------------------------------------------------ *)
(* analyze_set_for_h2h and get_set_score, run by the main thread        *)
(* ------------------------------------------------------------------ *)

\* target_player_ids, and one player who is no target
Targets == 1..NumPlayers
AllPlayers == 1..(NumPlayers + 1)

\* a slot: bye (no entrant), the players of its entrant's participants, and
\* standing.placement (0: no standing or no placement)
Slots ==
  {[bye |-> TRUE, participants |-> {}, placement |-> pl] : pl \in 0..2} \cup
  {[bye |-> FALSE, participants |-> ps, placement |-> pl] :
     ps \in (SUBSET AllPlayers) \ {{}}, pl \in 0..2}

\* a slot list of k slots, s1 and s2 in turn
SlotList(s1, s2, k) == [i \in 1..k |-> IF i % 2 = 1 THEN s1 ELSE s2]

InitH ==
  /\ ApiInit("h_start", "w_done")
  /\ BatchOff
  /\ SharedOff
  /\ \E s1, s2 \in Slots : \E k \in 0..MaxSlots :
       set_data = [id |-> 1, slots |-> SlotList(s1, s2, k)]
  /\ player_ids = <<>>
  /\ winner_id = 0
  /\ match = NoMatch
  /\ OthersOff

\* the target players among the participants of a slot; a bye is skipped
TargetsIn(slot) == IF slot.bye THEN {} ELSE slot.participants \cap Targets

\* players_in_set after the loop over the slots
PlayersInSet(sd) == UNION {TargetsIn(sd.slots[i]) : i \in DOMAIN sd.slots}

\* the slot whose pass through the loop wrote player_details[p] last
RECURSIVE DetailSlot(_, _, _)
DetailSlot(sd, p, i) ==
  IF p \in TargetsIn(sd.slots[i]) THEN i ELSE DetailSlot(sd, p, i - 1)

\* player_details[p]['placement']
PlacementOf(sd, p) == sd.slots[DetailSlot(sd, p, Len(sd.slots))].placement

\* winner resolution taking the first player without looking at placements
WinnerFirst(sd, ids) == ids[1]

\* winner_id: player1 if its placement is 1, else player2 if its placement
\* is 1, else None
Winner(sd, ids) ==
  IF PlacementOf(sd, ids[1]) = 1 THEN ids[1]
  ELSE IF PlacementOf(sd, ids[2]) = 1 THEN ids[2]
  ELSE 0

\* the test of the slot count dropped
QualifiesAnyLength(sd) == Cardinality(PlayersInSet(sd)) = 2

\* len(slots) == 2 and len(players_in_set) == 2; a record with another slot
\* count returns before its slots are read
Qualifies(sd) == Len(sd.slots) = 2 /\ Cardinality(PlayersInSet(sd)) = 2

\* analyze_set_for_h2h up to the call of get_set_score, which enqueues the
\* SetScore request and enters process_queue(1); list(players_in_set) comes
\* in either order
HAnalyze ==
  /\ pc[Main] = "h_start"
  /\ IF Qualifies(set_data)
     THEN \E p1 \in PlayersInSet(set_data) :
            LET p2 == CHOOSE q \in PlayersInSet(set_data) : q # p1
                w == Winner(set_data, <<p1, p2>>)
            IN /\ player_ids' = <<p1, p2>>
               /\ winner_id' = w
               /\ IF w # 0
                  THEN /\ add_to_queue("set_score", ScoreId(set_data.id), 5)
                       /\ processed' = [processed EXCEPT ![Main] = 0]
                       /\ max_requests' = [max_requests EXCEPT ![Main] = 1]
                       /\ main_ret' = "h_score"
                       /\ pc' = [pc EXCEPT ![Main] = "pq_check"]
                  ELSE /\ pc' = [pc EXCEPT ![Main] = "h_done"]
                       /\ UNCHANGED <<request_queue, enq, popCount, idOf,
                                      processed, max_requests, main_ret>>
     ELSE /\ pc' = [pc EXCEPT ![Main] = "h_done"]
          /\ UNCHANGED <<request_queue, enq, popCount, idOf, processed,
                         max_requests, main_ret, player_ids, winner_id>>
  /\ UNCHANGED <<results, rate_limit_lock, req, attempt, ret, page, total_pages,
                 last, uniform, cvars, bvars, svars, set_data, match, ovars>>

\* get_set_score after process_queue returned: f"{score1}-{score2}" of the
\* two slots of the answer, or "0-0"
SetScore ==
  LET id == ScoreId(set_data.id) IN
  IF id \in DOMAIN results /\ ~results[id].data.none /\ results[id].data.obj # 0
  THEN <<results[id].data.score[1], results[id].data.score[2]>>
  ELSE <<0, 0>>

\* slots[i].get('standing', {}) is None for a null standing, and .get on it
\* raises AttributeError
ScoreRaises ==
  LET id == ScoreId(set_data.id) IN
  id \in DOMAIN results /\ ~results[id].data.none /\ results[id].data.obj = 2

\* get_set_score returns and analyze_set_for_h2h returns the match, or
\* get_set_score raises and no match is returned
HScore ==
  /\ pc[Main] = "h_score"
  /\ IF ScoreRaises
     THEN /\ pc' = [pc EXCEPT ![Main] = "h_raised"]
          /\ UNCHANGED match
     ELSE /\ match' = [emitted |-> TRUE,
                       player1_id |-> player_ids[1],
                       player2_id |-> player_ids[2],
                       winner_id |-> winner_id,
                       loser_id |-> IF player_ids[1] # winner_id
                                    THEN player_ids[1] ELSE player_ids[2],
                       score |-> SetScore,
                       set_id |-> set_data.id]
          /\ pc' = [pc EXCEPT ![Main] = "h_done"]
  /\ UNCHANGED <<qvars, req, processed, max_requests, attempt, ret, page,
                 total_pages, hvars, cvars, main_ret, bvars, svars, set_data,
                 player_ids, winner_id, ovars>>

NextH ==
  \/ HAnalyze
  \/ HScore
  \/ PQCheck(Main) /\ UNCHANGED <<cvars, dvars>>
  \/ PQGet(Main) /\ UNCHANGED <<cvars, dvars>>
  \/ MsrAcquire(Main) /\ UNCHANGED <<cvars, dvars>>
  \/ MsrPost(Main) /\ UNCHANGED <<cvars, dvars>>
  \/ \E k \in Kinds : \E p \in Payloads(req[Main]) :
        MsrResponse(Main, k, p) /\ UNCHANGED <<cvars, dvars>>
  \/ MsrWake(Main) /\ UNCHANGED <<cvars, dvars>>
  \/ PQStore(Main) /\ UNCHANGED <<cvars, dvars>>

SpecH == InitH /\ [][NextH]_vars

(* ------------------------------------------------------------------ *)
(* get_player_tournaments_simple and get_additional_player_sets_pages:  *)
(* the filter over the sets of the pages one player task has received;  *)
(* the task's position is kept in pc[Main]                              *)
(* ------------------------------------------------------------------ *)

\* the target game and another one
Games == {"G", "H"}

\* the time at which the collector is constructed
Constructed == Year + 1

\* the latest time followed, and the latest start of a tournament
MaxNow == Constructed + MaxElapsed
MaxDate == MaxNow + 1

\* a set of a page: its event's tournament (id, slug standing for slug and
\* name, startAt with 0 for none) and its event's videogame name
Entries ==
  [id : 1..MaxTourneyIds, slug : 1..MaxSlugs, date : 0..MaxDate, game : Games]

\* the first page of a player has arrived and is about to be read
InitF ==
  /\ ApiInit("f_first", "w_done")
  /\ BatchOff
  /\ SharedOff
  /\ MatchOff
  /\ CollectorInit(Constructed, "G")
  /\ tournaments = <<>>
  /\ additional = <<>>
  /\ first_seen = <<>>
  /\ PipelineOff

\* time passes
FClock ==
  /\ now < MaxNow
  /\ now' = now + 1
  /\ UNCHANGED <<qvars, tvars, hvars, cvars, main_ret, bvars, svars, mvars,
                 one_year_ago, target_game_name, tournaments, additional,
                 first_seen, pvars>>

\* the two tests of the loop body: the game, and
\* tournament_date and tournament_date >= self.one_year_ago and
\* tournament_date <= current_time
Kept(e) ==
  /\ ~(target_game_name # "" /\ e.game # target_game_name)
  /\ e.date # 0
  /\ e.date >= one_year_ago
  /\ e.date <= now

\* the value stored under the tournament id; `ok` is history: the entry was
\* of the target game and inside [now - Year, now] when it was tested
Stored(e) ==
  [slug |-> e.slug, date |-> e.date,
   ok |-> e.game = "G" /\ now - Year <= e.date /\ e.date <= now]

\* tournaments[tourney_id] = {...}
Assign(map, e) == Put(map, e.id, Stored(e))

\* tournaments.update(additional_tournaments)
Update(map, more) ==
  [k \in DOMAIN map \cup DOMAIN more |-> IF k \in DOMAIN more THEN more[k] ELSE map[k]]

\* history: the first entry kept for the id
Seen(e) ==
  IF e.id \in DOMAIN first_seen THEN first_seen
  ELSE Put(first_seen, e.id, [slug |-> e.slug, date |-> e.date])

\* one pass of the loop over the sets of the first page
FFirstEntry(e) ==
  /\ pc[Main] = "f_first"
  /\ IF Kept(e)
     THEN /\ tournaments' = Assign(tournaments, e)
          /\ first_seen' = Seen(e)
     ELSE UNCHANGED <<tournaments, first_seen>>
  /\ UNCHANGED <<qvars, tvars, hvars, cvars, main_ret, bvars, svars, mvars,
                 now, one_year_ago, target_game_name, additional, pvars>>

\* the first page is through: total_pages > 1 leads to the additional pages
FFirstDone(tp) ==
  /\ pc[Main] = "f_first"
  /\ total_pages' = [total_pages EXCEPT ![Main] = tp]
  /\ IF tp > 1
     THEN /\ pc' = [pc EXCEPT ![Main] = "f_more"]
          /\ page' = [page EXCEPT ![Main] = 2]
     ELSE /\ pc' = [pc EXCEPT ![Main] = "f_done"]
          /\ UNCHANGED page
  /\ UNCHANGED <<qvars, req, processed, max_requests, attempt, ret, hvars,
                 cvars, main_ret, bvars, svars, mvars, fvars, pvars>>

\* one pass of the loop over the sets of an additional page
FMoreEntry(e) ==
  /\ pc[Main] = "f_more"
  /\ IF Kept(e)
     THEN /\ additional' = Assign(additional, e)
          /\ first_seen' = Seen(e)
     ELSE UNCHANGED <<additional, first_seen>>
  /\ UNCHANGED <<qvars, tvars, hvars, cvars, main_ret, bvars, svars, mvars,
                 now, one_year_ago, target_game_name, tournaments, pvars>>

\* the page is through: the next page, or after the last one
\* tournaments.update(additional_tournaments) and the return
FPageDone ==
  /\ pc[Main] = "f_more"
  /\ IF page[Main] < LastPage(total_pages[Main])
     THEN /\ page' = [page EXCEPT ![Main] = page[Main] + 1]
          /\ UNCHANGED <<pc, tournaments>>
     ELSE /\ tournaments' = Update(tournaments, additional)
          /\ pc' = [pc EXCEPT ![Main] = "f_done"]
          /\ UNCHANGED page
  /\ UNCHANGED <<qvars, req, processed, max_requests, attempt, ret, total_pages,
                 hvars, cvars, main_ret, bvars, svars, mvars, now, one_year_ago,
                 target_game_name, additional, first_seen, pvars>>

NextF ==
  \/ FClock
  \/ \E e \in Entries : FFirstEntry(e)
  \/ \E tp \in 1..MaxTotalPages : FFirstDone(tp)
  \/ \E e \in Entries : FMoreEntry(e)
  \/ FPageDone

SpecF == InitF /\ [][NextF]_vars

(* ------------------------------------------------------------------ *)
(* SmartStartGGAPI used directly: a caller that enqueues requests with  *)
(* priorities of its choice and calls process_queue                     *)
(* ------------------------------------------------------------------ *)

Priorities == 1..MaxPriority

InitQ ==
  /\ ApiInit("q_idle", "w_done")
  /\ BatchOff
  /\ SharedOff
  /\ MatchOff
  /\ OthersOff

\* the caller enqueues a request
QAdd(priority) ==
  /\ pc[Main] = "q_idle"
  /\ enq < MaxRequests
  /\ add_to_queue("raw", RawId(enq + 1), priority)
  /\ UNCHANGED <<results, rate_limit_lock, tvars, last, uniform, cvars, dvars>>

\* the caller calls process_queue(max_requests=k)
QProcess(k) ==
  /\ pc[Main] = "q_idle"
  /\ processed' = [processed EXCEPT ![Main] = 0]
  /\ max_requests' = [max_requests EXCEPT ![Main] = k]
  /\ main_ret' = "q_idle"
  /\ pc' = [pc EXCEPT ![Main] = "pq_check"]
  /\ UNCHANGED <<qvars, req, attempt, ret, page, total_pages, hvars, cvars,
                 bvars, svars, mvars, ovars>>

NextQ ==
  \/ \E p \in Priorities : QAdd(p)
  \/ \E k \in 1..MaxRequests : QProcess(k)
  \/ PQCheck(Main) /\ UNCHANGED <<cvars, dvars>>
  \/ PQGet(Main) /\ UNCHANGED <<cvars, dvars>>
  \/ MsrAcquire(Main) /\ UNCHANGED <<cvars, dvars>>
  \/ MsrPost(Main) /\ UNCHANGED <<cvars, dvars>>
  \/ \E k \in Kinds : \E p \in Payloads(req[Main]) :
        MsrResponse(Main, k, p) /\ UNCHANGED <<cvars, dvars>>
  \/ MsrWake(Main) /\ UNCHANGED <<cvars, dvars>>
  \/ PQStore(Main) /\ UNCHANGED <<cvars, dvars>>

SpecQ == InitQ /\ [][NextQ]_vars

(* ------------------------------------------------------------------ *)
(* collect_tournament_data: the whole run. The seed tournament has the  *)
(* players 1..NumPlayers in one event of the target game; every player  *)
(* attended the tournament CommonT, which holds one match: player 1     *)
(* with placement 1 against player 2 with placement 2. Every call is    *)
(* answered with data or with an error list (make_safe_request returns  *)
(* None); the retried kinds end in one of the two as well.              *)
(* ------------------------------------------------------------------ *)

\* the identifier of the TournamentPlayers request: the slug
SeedId == <<"seed", 0, 0>>

\* the tournament all players attended
CommonT == NumPlayers + 1

\* a tournament only player w attended
PrivateT(w) == CommonT + w

\* a PlayerTournaments answer of one page: k = 1 with a set of CommonT that
\* passes the filters, k = 0 with no set that does, k = 2 with "player": null,
\* k = 3 with sets of CommonT and of the player's private tournament
PlayerSets(k) == [none |-> FALSE, totalPages |-> 1, obj |-> k, score |-> <<0, 0>>]

\* the answers to a request: the first is the one the scenario expects
Expected(r) ==
  CASE r.type = "tournament_players" -> <<"ok", TData(1)>>
    [] r.type = "player_sets" -> <<"ok", PlayerSets(1)>>
    [] r.type = "tournament_data" -> <<"ok", TData(r.n)>>
    [] r.type = "tournament_sets" -> <<"ok", TData(1)>>
    [] OTHER -> <<"ok", SData(2, 1)>>

PAnswers(r) ==
  {Expected(r), <<"gqlerr", NoData>>} \cup
  (CASE r.type = "player_sets" -> {<<"ok", PlayerSets(k)>> : k \in {0, 2, 3}}
     [] r.type = "set_score" -> {<<"ok", NullStanding>>, <<"ok", Data(0)>>}
     [] OTHER -> {<<"ok", TData(0)>>})

\* outcome `id` holds data with a non-null object
HasObject(id) ==
  id \in DOMAIN results /\ ~results[id].data.none /\ results[id].data.obj # 0

InitP ==
  /\ ApiInit("p_start", "w_idle")
  /\ BatchOff
  /\ SharedOff
  /\ MatchOff
  /\ CollectorInit(Constructed, "")
  /\ tournaments = <<>>
  /\ additional = <<>>
  /\ first_seen = <<>>
  /\ PipelineOff

\* get_tournament_players_and_game: add_to_queue, then process_queue(100)
PSeed ==
  /\ pc[Main] = "p_start"
  /\ add_to_queue("tournament_players", SeedId, 1)
  /\ processed' = [processed EXCEPT ![Main] = 0]
  /\ max_requests' = [max_requests EXCEPT ![Main] = SeedMaxRequests]
  /\ main_ret' = "p_seed_read"
  /\ pc' = [pc EXCEPT ![Main] = "pq_check"]
  /\ UNCHANGED <<results, rate_limit_lock, req, attempt, ret, page, total_pages,
                 last, uniform, cvars, bvars, svars, mvars, ovars>>

\* the seed outcome is read; without players the run returns None, else the
\* player tasks are submitted to the pool
PSeedRead ==
  /\ pc[Main] = "p_seed_read"
  /\ IF HasObject(SeedId)
     THEN /\ target_players' = Workers
          /\ target_game_name' = "G"
          /\ pc' = [t \in Threads |-> IF t = Main THEN "p_wait" ELSE "w_submitted"]
          /\ UNCHANGED outcome
     ELSE /\ outcome' = "none"
          /\ pc' = [pc EXCEPT ![Main] = "p_end"]
          /\ UNCHANGED <<target_players, target_game_name>>
  /\ UNCHANGED <<qvars, req, processed, max_requests, attempt, ret, page,
                 total_pages, hvars, cvars, main_ret, bvars, svars, mvars,
                 now, one_year_ago, tournaments, additional, first_seen,
                 task_result, collected, sets_details, head_to_head_data, all_ok>>

\* what get_player_tournaments_simple makes of the outcome under its own id:
\* {} without data, TypeError on "player": null, else the filtered map
TaskResult(w) ==
  IF ~(RawId(w) \in DOMAIN results /\ ~results[RawId(w)].data.none)
  THEN [st |-> "returned", tournaments |-> {}]
  ELSE IF results[RawId(w)].data.obj = 2
  THEN [st |-> "raised", tournaments |-> {}]
  ELSE [st |-> "returned",
        tournaments |->
          CASE results[RawId(w)].data.obj = 1 -> {CommonT}
            [] results[RawId(w)].data.obj = 3 -> {CommonT, PrivateT(w)}
            [] OTHER -> {}]

\* the player task reads its outcome and ends
PTaskRead(w) ==
  /\ WRead(w)
  /\ task_result' = [task_result EXCEPT ![w] = TaskResult(w)]
  /\ UNCHANGED <<cvars, main_ret, bvars, svars, mvars, fvars, target_players,
                 collected, sets_details, head_to_head_data, outcome, all_ok>>

\* a call is answered
PResponse(t, a) ==
  /\ MsrResponse(t, a[1], a[2])
  /\ all_ok' = (all_ok /\ a = Expected(req[t]))
  /\ UNCHANGED <<cvars, main_ret, bvars, svars, mvars, fvars, target_players,
                 task_result, collected, sets_details, head_to_head_data, outcome>>

\* an entry for every future, whatever came of it
KeepsAll(r) == TRUE

\* `tournaments = future.result()` inside try, and `if tournaments:`
Keeps(r) == r.st = "returned" /\ r.tournaments # {}

\* one pass of the loop over as_completed(future_to_player)
PCollect(w) ==
  /\ pc[Main] = "p_wait"
  /\ pc[w] = "w_done"
  /\ w \notin collected
  /\ collected' = collected \cup {w}
  /\ player_tournaments' =
       IF Keeps(task_result[w])
       THEN Append(player_tournaments,
                   [player |-> w, tournaments |-> task_result[w].tournaments])
       ELSE player_tournaments
  /\ UNCHANGED <<qvars, tvars, hvars, cvars, main_ret, bvars, shared_tournaments,
                 mvars, fvars, target_players, task_result, sets_details,
                 head_to_head_data, outcome, all_ok>>

\* get_all_tournament_ids: the ids of all maps
AllTournamentIds(pt) == UNION {pt[i].tournaments : i \in DOMAIN pt}

\* tournament_list of batch_process_tournament_data: the ids in the order o,
\* each with its slug
TournamentListOf(o) == [k \in DOMAIN o |-> [id |-> o[k], slug |-> o[k]]]

\* get_all_player_tournaments_parallel has returned: without an entry the run
\* returns None, else batch_process_tournament_data begins
PAfterWait ==
  /\ pc[Main] = "p_wait"
  /\ collected = Workers
  /\ IF player_tournaments = <<>>
     THEN /\ outcome' = "none"
          /\ pc' = [pc EXCEPT ![Main] = "p_end"]
          /\ UNCHANGED <<tournament_list, bi, bk>>
     ELSE /\ \E o \in Orders(AllTournamentIds(player_tournaments)) :
               tournament_list' = TournamentListOf(o)
          /\ bi' = 1
          /\ bk' = 1
          /\ pc' = [pc EXCEPT ![Main] = "b_enqueue"]
          /\ UNCHANGED outcome
  /\ UNCHANGED <<qvars, req, processed, max_requests, attempt, ret, page,
                 total_pages, hvars, cvars, main_ret, fail_id, tournament_cache,
                 tournament_details, svars, mvars, fvars, target_players,
                 task_result, collected, sets_details, head_to_head_data, all_ok>>

\* create_combined_tournament_histories and save_tournament_data are through;
\* find_shared_tournaments is next
PSaved ==
  /\ pc[Main] = "b_done"
  /\ pc' = [pc EXCEPT ![Main] = "s_start"]
  /\ UNCHANGED <<qvars, req, processed, max_requests, attempt, ret, page,
                 total_pages, hvars, cvars, dvars>>

\* the match of CommonT
TheMatch ==
  [id |-> 1,
   slots |-> <<[bye |-> FALSE, participants |-> {1}, placement |-> 1],
               [bye |-> FALSE, participants |-> {2}, placement |-> 2]>>]

\* the run returns its report
Report ==
  /\ outcome' = "report"
  /\ pc' = [pc EXCEPT ![Main] = "p_end"]

\* find_shared_tournaments has returned: with a shared tournament
\* batch_process_tournament_sets enqueues its TournamentSets request under the
\* tournament id and enters process_queue(len(batch)); without one the run
\* returns with head_to_head_data = []
PAfterShared ==
  /\ pc[Main] = "s_done"
  /\ IF DOMAIN shared_tournaments # {}
     THEN /\ add_to_queue("tournament_sets", RawId(CommonT), 4)
          /\ processed' = [processed EXCEPT ![Main] = 0]
          /\ max_requests' = [max_requests EXCEPT ![Main] = 1]
          /\ main_ret' = "p_sets_read"
          /\ pc' = [pc EXCEPT ![Main] = "pq_check"]
          /\ UNCHANGED outcome
     ELSE /\ Report
          /\ UNCHANGED <<request_queue, enq, popCount, idOf, processed,
                         max_requests, main_ret>>
  /\ UNCHANGED <<results, rate_limit_lock, req, attempt, ret, page, total_pages,
                 last, uniform, cvars, bvars, svars, mvars, fvars,
                 target_players, task_result, collected, sets_details,
                 head_to_head_data, all_ok>>

\* the TournamentSets outcome is read; extract_head_to_head_matches hands the
\* match of a tournament that has details to analyze_set_for_h2h
PSetsRead ==
  /\ pc[Main] = "p_sets_read"
  /\ IF HasObject(RawId(CommonT))
     THEN /\ sets_details' = {CommonT}
          /\ set_data' = TheMatch
          /\ pc' = [pc EXCEPT ![Main] = "h_start"]
          /\ UNCHANGED outcome
     ELSE /\ Report
          /\ UNCHANGED <<sets_details, set_data>>
  /\ UNCHANGED <<qvars, req, processed, max_requests, attempt, ret, page,
                 total_pages, hvars, cvars, main_ret, bvars, svars, player_ids,
                 winner_id, match, fvars, target_players, task_result,
                 collected, head_to_head_data, all_ok>>

\* analyze_set_for_h2h has returned: the match, if any, is appended and the
\* run returns its report
PReport ==
  /\ pc[Main] = "h_done"
  /\ head_to_head_data' = IF match.emitted THEN <<match>> ELSE <<>>
  /\ Report
  /\ UNCHANGED <<qvars, req, processed, max_requests, attempt, ret, page,
                 total_pages, hvars, cvars, main_ret, bvars, svars, mvars,
                 fvars, target_players, task_result, collected, sets_details,
                 all_ok>>

\* the AttributeError of get_set_score leaves collect_tournament_data
PRaised ==
  /\ pc[Main] = "h_raised"
  /\ outcome' = "raised"
  /\ pc' = [pc EXCEPT ![Main] = "p_end"]
  /\ UNCHANGED <<qvars, req, processed, max_requests, attempt, ret, page,
                 total_pages, hvars, cvars, main_ret, bvars, svars, mvars,
                 fvars, target_players, task_result, collected, sets_details,
                 head_to_head_data, all_ok>>

NextP ==
  \/ PSeed
  \/ PSeedRead
  \/ \E w \in Workers : WStart(w) /\ UNCHANGED <<cvars, dvars>>
  \/ \E w \in Workers : PTaskRead(w)
  \/ \E t \in Threads : PQCheck(t) /\ UNCHANGED <<cvars, dvars>>
  \/ \E t \in Threads : PQGet(t) /\ UNCHANGED <<cvars, dvars>>
  \/ \E t \in Threads : MsrAcquire(t) /\ UNCHANGED <<cvars, dvars>>
  \/ \E t \in Threads : MsrPost(t) /\ UNCHANGED <<cvars, dvars>>
  \/ \E t \in Threads : \E a \in PAnswers(req[t]) : PResponse(t, a)
  \/ \E t \in Threads : PQStore(t) /\ UNCHANGED <<cvars, dvars>>
  \/ \E w \in Workers : PCollect(w)
  \/ PAfterWait
  \/ BEnqueue
  \/ BCollect
  \/ PSaved
  \/ SFind
  \/ PAfterShared
  \/ PSetsRead
  \/ HAnalyze
  \/ HScore
  \/ PReport
  \/ PRaised

SpecP == InitP /\ [][NextP]_vars

(* ------------------------------------------------------------------ *)
(* get_player_tournaments_simple for a single player: the pool runs the *)
(* task of player 1 alone, and the player has up to MaxPagesSeen pages  *)
(* ------------------------------------------------------------------ *)

InitG ==
  /\ ApiInitAt([t \in Threads |->
        IF t = Main THEN "idle" ELSE IF t = 1 THEN "w_submitted" ELSE "w_done"])
  /\ BatchOff
  /\ SharedOff
  /\ MatchOff
  /\ OthersOff

\* the data of an answer: the first page reports totalPages
PageAnswers(r) ==
  IF r.type = "player_sets" THEN {Data(tp) : tp \in 0..MaxPagesSeen} ELSE {Data(0)}

NextG ==
  \/ WStart(1) /\ UNCHANGED <<cvars, dvars>>
  \/ WRead(1) /\ UNCHANGED <<cvars, dvars>>
  \/ WNextPage(1) /\ UNCHANGED <<cvars, dvars>>
  \/ PQCheck(1) /\ UNCHANGED <<cvars, dvars>>
  \/ PQGet(1) /\ UNCHANGED <<cvars, dvars>>
  \/ MsrAcquire(1) /\ UNCHANGED <<cvars, dvars>>
  \/ MsrPost(1) /\ UNCHANGED <<cvars, dvars>>
  \/ \E k \in Kinds : \E d \in PageAnswers(req[1]) :
        MsrResponse(1, k, d) /\ UNCHANGED <<cvars, dvars>>
  \/ MsrWake(1) /\ UNCHANGED <<cvars, dvars>>
  \/ PQStore(1) /\ UNCHANGED <<cvars, dvars>>

SpecG == InitG /\ [][NextG]_vars

(* ------------------------------------------------------------------ *)
(* Properties                                                          *)
(* ------------------------------------------------------------------ *)

AllDone == \A w \in Workers : pc[w] = "w_done"
InCall(t) == pc[t] \in {"msr_lock", "msr_wait", "msr_inflight", "msr_sleep"}

\* C1: any two consecutive network calls issued through make_safe_request
\* start at least the configured interval (0.6 s) apart, whichever workers
\* issue them and however the earlier call ended.
RateIntervalKept == gap

\* C2: a worker that has returned from process_queue(max_requests=1) finds
\* the outcome of its own request identifier in the ResultStore.
OwnOutcomeStored ==
  \A w \in Workers : pc[w] = "w_read" => OwnId(w) \in DOMAIN results

\* C3: every request put on the backlog is popped, hence executed, exactly
\* once, however the workers' drains interleave: never twice, and none is
\* left on the backlog once every task has finished.
PoppedExactlyOnce ==
  /\ \A n \in DOMAIN popCount : popCount[n] <= 1
  /\ \A n \in DOMAIN popCount :
        popCount[n] = 0 <=> \E i \in DOMAIN request_queue : request_queue[i].n = n
  /\ AllDone => request_queue = <<>> /\ \A n \in DOMAIN popCount : popCount[n] = 1

\* C3 witness: both tasks have finished after draining three or more requests
PoppedExactlyOnceWitness == AllDone /\ enq >= 3

\* the call of thread t has used up its attempts on transport failures alone
TransportExhausted(t) ==
  pc[t] = "pq_store" /\ last[t] = "exc" /\ uniform[t] /\ attempt[t] = Retries

\* C4: a request all of whose attempts end in a transport failure makes
\* make_safe_request return no data without raising; process_queue stores an
\* outcome with a null payload under that request's identifier and leaves the
\* outcomes of other identifiers alone; the requests behind it are still
\* executed and recorded.
TransportFailureIsolated ==
  /\ [](\A t \in Threads : pc[t] # "pq_raised")
  /\ [](\A t \in Threads : TransportExhausted(t) => ret[t].none)
  /\ [][\A t \in Threads : TransportExhausted(t) /\ pc'[t] # "pq_store" =>
          /\ req[t].id \in DOMAIN results'
          /\ results'[req[t].id].data.none
          /\ \A i \in DOMAIN results \ {req[t].id} :
                i \in DOMAIN results' /\ results'[i] = results[i]]_vars
  /\ [](AllDone => \A n \in DOMAIN idOf : idOf[n] \in DOMAIN results)

\* C4 witness: a request is about to be recorded after three transport
\* failures while the backlog still holds a request behind it
TransportFailureWitness ==
  \E t \in Threads : TransportExhausted(t) /\ request_queue # <<>>

\* C5: HTTP 429 responses are not charged against the attempt counter: a call
\* that has received nothing but 429 responses is still retrying, it has not
\* returned no data.
RateLimitedNotCharged ==
  \A t \in Threads : ~(pc[t] = "pq_store" /\ last[t] = "r429" /\ uniform[t])

\* C6: after a response that carries an application-level error list the call
\* returns no data at once: the thread has left make_safe_request and makes no
\* further network call for the request.
AppErrorIsTerminal ==
  \A t \in Threads : last[t] = "gqlerr" => pc[t] = "pq_store" /\ ret[t].none

\* C6 witness: the error list came on the first attempt, two attempts unused
AppErrorWitness ==
  \E t \in Threads : last[t] = "gqlerr" /\ attempt[t] = 0 /\ pc[t] = "pq_store"

\* the slug a TournamentData request was made for
SlugOfRequest(n) == tournament_list[idOf[n][2]].slug
FetchFailed(n) ==
  idOf[n] \in DOMAIN results /\
    (results[idOf[n]].data.none \/ results[idOf[n]].data.obj = 0)

\* C7: tournament detail is fetched at most once per slug: a request for a
\* slug is enqueued only if every earlier request for that slug ended without
\* a tournament, and every tournament id whose slug has been resolved holds
\* the cached object of that slug when the call ends.
SlugFetchedOnce ==
  /\ \A n, m \in DOMAIN idOf :
        n < m /\ SlugOfRequest(n) = SlugOfRequest(m) => FetchFailed(n)
  /\ pc[Main] = "b_done" =>
        \A k \in DOMAIN tournament_list :
          tournament_list[k].slug \in DOMAIN tournament_cache =>
            /\ tournament_list[k].id \in DOMAIN tournament_details
            /\ tournament_details[tournament_list[k].id] =
                  tournament_cache[tournament_list[k].slug]

\* the players whose map holds tournament t
Attending(t) ==
  {player_tournaments[i].player :
     i \in {j \in DOMAIN player_tournaments : t \in player_tournaments[j].tournaments}}

\* C8: find_shared_tournaments returns exactly the tournament ids found in
\* the maps of two or more players, each with the set of all players whose
\* map holds it and player_count the size of that set.
SharedExactly ==
  pc[Main] = "s_done" =>
    /\ DOMAIN shared_tournaments =
         {t \in 1..MaxSharedTournaments : Cardinality(Attending(t)) >= 2}
    /\ \A t \in DOMAIN shared_tournaments :
         /\ shared_tournaments[t].players = Attending(t)
         /\ shared_tournaments[t].player_count = Cardinality(Attending(t))
         /\ shared_tournaments[t].player_count >= 2

\* C8 witness: A attends {T1, T2}, B attends {T2, T3}; the result is {T2 -> {A, B}}
SharedExactlyWitness ==
  /\ pc[Main] = "s_done"
  /\ player_tournaments = <<[player |-> 1, tournaments |-> {1, 2}],
                            [player |-> 2, tournaments |-> {2, 3}]>>
  /\ DOMAIN shared_tournaments = {2}
  /\ shared_tournaments[2].players = {1, 2}

\* the match has one target player in each slot, two different players
OnePerSide ==
  /\ Len(set_data.slots) = 2
  /\ \A i \in 1..2 : Cardinality(TargetsIn(set_data.slots[i])) = 1
  /\ TargetsIn(set_data.slots[1]) # TargetsIn(set_data.slots[2])
TargetOf(i) == CHOOSE p \in TargetsIn(set_data.slots[i]) : TRUE
Decided == pc[Main] = "h_done"

\* C9: for a two-slot match with one target player in each slot and
\* placement 1 in exactly one slot, the outcome names the target player of the
\* placement-1 slot as winner and the other as loser; in every outcome winner
\* and loser differ and are together the two players of the record.
WinnerByPlacement ==
  /\ \A i \in 1..2 :
        (/\ Decided /\ OnePerSide
         /\ set_data.slots[i].placement = 1
         /\ set_data.slots[3 - i].placement # 1)
        => /\ match.emitted
           /\ match.winner_id = TargetOf(i)
           /\ match.loser_id = TargetOf(3 - i)
  /\ match.emitted =>
        /\ match.winner_id # match.loser_id
        /\ {match.winner_id, match.loser_id} = {match.player1_id, match.player2_id}

\* C9 witness: the winner sits in the second slot, beside a player who is no
\* target
WinnerByPlacementWitness ==
  /\ Decided /\ OnePerSide /\ match.emitted
  /\ set_data.slots[2].placement = 1 /\ set_data.slots[1].placement = 2
  /\ Cardinality(set_data.slots[2].participants) = 2
  /\ match.winner_id = TargetOf(2)

\* the score answer the outcome was built from
ScoreAnswer == results[ScoreId(set_data.id)].data
ScoreFetched ==
  /\ ScoreId(set_data.id) \in DOMAIN results
  /\ ~ScoreAnswer.none /\ ScoreAnswer.obj = 1

\* C10: the score of an emitted outcome is the winner's slot score followed
\* by the loser's slot score, whichever slot the winner occupies.
ScoreWinnerFirst ==
  \A i \in 1..2 :
    (/\ Decided /\ OnePerSide /\ match.emitted /\ ScoreFetched
     /\ match.winner_id = TargetOf(i))
    => match.score = <<ScoreAnswer.score[i], ScoreAnswer.score[3 - i]>>

\* the slots of the record that have placement 1
WinningSlots == {i \in DOMAIN set_data.slots : set_data.slots[i].placement = 1}

\* C11: a two-slot match in which neither slot or both slots have placement 1
\* produces no head-to-head outcome.
NoWinnerExcluded ==
  (Len(set_data.slots) = 2 /\ Cardinality(WinningSlots) # 1) => ~match.emitted

\* C12: an outcome is emitted only when the two distinct target players sit
\* in different slots: not for two targets in one slot, nor for a target that
\* appears in both slots.
SameSideExcluded == match.emitted => OnePerSide

\* the record has a slot without entrant
HasBye == \E i \in DOMAIN set_data.slots : set_data.slots[i].bye

\* C13: a match with a bye slot never produces a head-to-head outcome and
\* its analysis does not fail.
ByeExcluded == HasBye => (~match.emitted /\ pc[Main] # "h_raised")

\* C14: a match with fewer than two distinct target players in its slots, or
\* with a slot count other than two, produces no head-to-head outcome and no
\* score fetch.
TooFewExcluded ==
  (Len(set_data.slots) # 2 \/ Cardinality(PlayersInSet(set_data)) < 2)
  => (~match.emitted /\ enq = 0 /\ pc[Main] \in {"h_start", "h_done"})

\* C14 witness: an analysed record of three slots that hold both target
\* players and a placement 1
TooFewExcludedWitness ==
  /\ Decided /\ ~match.emitted /\ enq = 0
  /\ Len(set_data.slots) = 3
  /\ PlayersInSet(set_data) = Targets
  /\ WinningSlots # {}

\* C15: an entry is in a player's tournament map only if its game is the
\* target game and its start t had now - Year <= t <= now when it was tested,
\* on the first page and on the additional pages alike.
WindowFromNow ==
  /\ \A k \in DOMAIN tournaments : tournaments[k].ok
  /\ \A k \in DOMAIN additional : additional[k].ok

\* C19: the entry a player's map holds for a tournament id is the first one
\* that was kept for it; a later one on the same page or on a later page does
\* not replace it.
FirstOccurrenceKept ==
  /\ \A k \in DOMAIN tournaments :
       /\ tournaments[k].slug = first_seen[k].slug
       /\ tournaments[k].date = first_seen[k].date
  /\ \A k \in DOMAIN additional \ DOMAIN tournaments :
       /\ additional[k].slug = first_seen[k].slug
       /\ additional[k].date = first_seen[k].date

\* C18: requests are popped in the order they were enqueued, whatever their
\* priorities: a request that has been popped was enqueued before every
\* request still waiting, and before every later one that has been popped.
FifoOrder ==
  /\ \A n, m \in DOMAIN popCount : (n < m /\ popCount[m] > 0) => popCount[n] > 0
  /\ \A i \in DOMAIN request_queue : popCount[request_queue[i].n] = 0
  /\ \A i, j \in DOMAIN request_queue :
       i < j => request_queue[i].n < request_queue[j].n

\* C18 witness: the request enqueued first is being executed while the second,
\* with a smaller priority value, and the third, with a greater one, wait
FifoOrderWitness ==
  /\ req[Main].n = 1
  /\ request_queue # <<>>
  /\ Head(request_queue).n = 2
  /\ Head(request_queue).priority < req[Main].priority
  /\ Len(request_queue) = 2
  /\ request_queue[2].priority > req[Main].priority

\* collect_tournament_data has ended
Ended == pc[Main] = "p_end"

\* C16: the run ends without output only when the seed tournament's players
\* cannot be resolved; whichever later fetches fail, it returns its report.
OnlySeedIsFatal == (Ended /\ target_players # {}) => outcome = "report"

\* C17: when every call got the expected answer, the run ends with exactly
\* one shared tournament and exactly one head-to-head outcome, won by the
\* placement-1 player, under every interleaving of the player tasks.
EndToEnd ==
  (Ended /\ all_ok)
  => /\ outcome = "report"
     /\ DOMAIN shared_tournaments = {CommonT}
     /\ Len(head_to_head_data) = 1
     /\ head_to_head_data[1].winner_id = 1
     /\ head_to_head_data[1].loser_id = 2

\* the entry of player w in player_tournaments
EntriesOf(w) ==
  {i \in DOMAIN player_tournaments : player_tournaments[i].player = w}

\* C20: a player whose task raised has no entry in the result mapping, every
\* player whose task returned tournaments has one entry holding what its task
\* returned, and no error of a task leaves the coordinator: a run that ends
\* with an error has it from get_set_score.
RaisedTaskDropped ==
  \A w \in collected :
    /\ task_result[w].st = "raised" => EntriesOf(w) = {}
    /\ (task_result[w].st = "returned" /\ task_result[w].tournaments # {})
       => /\ Cardinality(EntriesOf(w)) = 1
          /\ \A i \in EntriesOf(w) :
               player_tournaments[i].tournaments = task_result[w].tournaments
    /\ outcome = "raised" => ScoreRaises

\* C20 witness: a task raised, another returned tournaments and has its
\* entry, and the coordinator has returned to a run that goes on
RaisedTaskDroppedWitness ==
  /\ collected = Workers
  /\ pc[Main] = "b_enqueue"
  /\ \E w \in Workers : task_result[w].st = "raised" /\ EntriesOf(w) = {}
  /\ \E w \in Workers :
       /\ task_result[w].tournaments = {CommonT}
       /\ EntriesOf(w) # {}

\* the fetch of player w's sets came back with data
FetchSucceeded(w) == RawId(w) \in DOMAIN results /\ ~results[RawId(w)].data.none

\* C21: a player whose fetch succeeded with no tournament passing the filters
\* has an entry in the result mapping, with an empty tournament map.
EmptyMapKept ==
  \A w \in collected :
    (/\ FetchSucceeded(w)
     /\ task_result[w].st = "returned"
     /\ task_result[w].tournaments = {})
    => \E i \in EntriesOf(w) : player_tournaments[i].tournaments = {}

\* C22: no two requests enqueued during one run carry the same identifier.
IdentifiersFetchedOnce ==
  \A n, m \in DOMAIN idOf : idOf[n] = idOf[m] => n = m

\* C23: process_queue adds no delay of its own between executions: a thread
\* that stands between two executions (at the loop test of process_queue)
\* is not asleep; it waits only inside make_safe_request.
NoDelayOfItsOwn == \A t \in Threads : pc[t] = "pq_check" => timer[t] = 0

\* the pages of player w requested so far, and the serials of its requests
PagesRequested(w) ==
  {k \in 2..(MaxPagesSeen + 1) : \E n \in DOMAIN idOf : idOf[n] = PageId(w, k)}
RequestsOf(w) ==
  {n \in DOMAIN idOf : idOf[n] = RawId(w) \/ \E k \in 2..(MaxPagesSeen + 1) : idOf[n] = PageId(w, k)}

\* the first-page outcome of w holds data, and the totalPages it reports
FirstPageData(w) == RawId(w) \in DOMAIN results /\ ~results[RawId(w)].data.none
ReportedPages(w) == results[RawId(w)].data.totalPages

\* min(4, totalPages - 1)
FurtherPages(tp) == IF tp - 1 < 4 THEN tp - 1 ELSE 4

InsideLock == {t \in Threads : pc[t] \in {"msr_wait", "msr_inflight", "msr_sleep"}}

\* C25: no two network calls are in flight at once: a thread holds the lock
\* from its interval check until its response is classified and through the
\* whole sleep after a 429 or 5xx response, and no other thread is inside.
OneCallAtATime ==
  /\ Cardinality(InsideLock) <= 1
  /\ \A t \in InsideLock : rate_limit_lock = t

\* C25 witness: a thread sleeps after a 429 or 5xx response with time left,
\* while another thread with a request waits for the lock
OneCallAtATimeWitness ==
  \E t, u \in Threads :
    /\ pc[t] = "msr_sleep" /\ timer[t] > 0 /\ rate_limit_lock = t
    /\ last[t] \in {"r429", "r5xx"}
    /\ pc[u] = "msr_lock" /\ timer[u] = 0 /\ req[u] # NoReq

\* every request enqueued so far has an outcome stored under its identifier
AllRecorded == \A n \in DOMAIN idOf : idOf[n] \in DOMAIN results

\* C26: no player task stands at the blocking get with the backlog empty, and
\* every task's drain ends: eventually all tasks are done and every enqueued
\* request has an outcome.
DrainTerminates ==
  /\ [](\A w \in Workers : pc[w] = "pq_get" => request_queue # <<>>)
  /\ <>[](AllDone /\ AllRecorded)

\* C26 witness: a task is about to pop after another task has popped the
\* request it enqueued
DrainTerminatesWitness ==
  \E w, u \in Workers :
    /\ w # u
    /\ pc[w] = "pq_get"
    /\ req[u].id = RawId(w)
    /\ Len(request_queue) = 1

\* the places where a sequential phase reads its outcomes, and the type of
\* the requests the phase enqueued
ReadPoints == {"p_seed_read", "b_collect", "p_sets_read", "h_score"}
PhaseType ==
  CASE pc[Main] = "p_seed_read" -> "tournament_players"
    [] pc[Main] = "b_collect" -> "tournament_data"
    [] pc[Main] = "p_sets_read" -> "tournament_sets"
    [] OTHER -> "set_score"

\* the identifiers the phase is about to read: the seed's, the identifier of
\* every item of the batch not answered from the cache, the shared
\* tournament's, the set's
PhaseIds ==
  CASE pc[Main] = "p_seed_read" -> {SeedId}
    [] pc[Main] = "b_collect" ->
         {RawId(tournament_list[k].id) : k \in
            {k \in bk..BatchEnd : tournament_list[k].slug \notin DOMAIN tournament_cache}}
    [] pc[Main] = "p_sets_read" -> {RawId(CommonT)}
    [] OTHER -> {ScoreId(set_data.id)}

\* C27: an invocation of process_queue(n) records at most n outcomes; when a
\* sequential phase reads its outcomes the backlog is empty, every request
\* enqueued so far has been executed exactly once, and every identifier the
\* phase reads holds an outcome of the phase's type.
DrainedBeforeRead ==
  /\ \A t \in Threads : processed[t] <= max_requests[t]
  /\ pc[Main] \in ReadPoints =>
       /\ request_queue = <<>>
       /\ processed[Main] >= 1
       /\ \A n \in DOMAIN idOf : popCount[n] = 1
       /\ \A i \in PhaseIds :
            /\ \E n \in DOMAIN idOf : idOf[n] = i
            /\ i \in DOMAIN results
            /\ results[i].type = PhaseType

\* C27 witness: the tournament-detail phase reads after process_queue(3) has
\* recorded three outcomes, one of them a failed fetch
DrainedBeforeReadWitness ==
  /\ pc[Main] = "b_collect"
  /\ Len(tournament_list) = 3
  /\ max_requests[Main] = 3 /\ processed[Main] = 3
  /\ \E k \in 1..3 : results[RawId(tournament_list[k].id)].data.none

====
